---- MODULE Spec2Model ----
(***************************************************************************)
(* A model of the WebSocket coordinator of so100_vla_demo/server.py: the   *)
(* ConnectionManager (a lock-guarded set of connections with a broadcast   *)
(* pass), the camera stream loop, the mock search-and-grasp behavior and   *)
(* the per-connection handler, all scheduled by one asyncio event loop.    *)
(*                                                                         *)
(* Scheduling.  One coroutine runs at a time.  `running` names the task    *)
(* that is between two awaits; while it is set nothing else moves.  A      *)
(* handler's segment between two awaits is one action.  The event loop     *)
(* picks the next ready coroutine in any order.                            *)
(*                                                                         *)
(* ws.send_json hands the message to the transport when it is called (or   *)
(* raises there, when the peer is gone) and then yields to the loop.       *)
(***************************************************************************)
EXTENDS Integers, Sequences, FiniteSets, TLC

\* Bounds of the model.
MaxConns == 2
MaxTasks == 3

\* range(10) and range(5) of _mock_search_and_grasp.
SearchSteps == 10
GraspSteps == 5

\* max_steps of the two loops SO100DemoOrchestrator.run calls.
SearchMaxSteps == 50
GraspMaxSteps == 100

\* The largest max_steps run_search_loop is called with on its own.
MaxSearchInput == 8

Conns == 1..MaxConns

\* A task is named by the place it is kept in: the task the handle stream_task
\* refers to, the task behavior_task refers to, or a task no handle refers to
\* any more (cancelled, and not yet ended).
TaskIds == 1..MaxTasks
NoTask == 0
StreamSlot == 1
BehaviorSlot == 2
OrphanSlots == TaskIds \ {StreamSlot, BehaviorSlot}

\* Coroutines that may hold or wait for the lock: handlers and tasks.
NoProc == <<"none", 0>>
H(c) == <<"h", c>>
T(t) == <<"t", t>>

VARIABLES
    active_connections, \* ConnectionManager.active_connections
    lock,               \* ConnectionManager._lock: holder and FIFO waiters
    streaming,          \* the module-level flag
    stream_task,        \* handle of the stream task, or NoTask (None)
    behavior_task,      \* handle of the behavior task, or NoTask (None)
    robot_connected,    \* robot_interface is connected
    is_mock,            \* robot_interface is a MockRobotInterface
    tasks,              \* the asyncio tasks created so far and still existing
    handler,            \* where each connection's websocket_endpoint is
    peer,               \* whether the client end of each connection is up
    running,            \* the task that runs between two awaits
    last,               \* history: what the last step sent or completed
    quiet,              \* history: a stop_stream was processed, no start_stream since
    trail,              \* history: 1 after stop_stream, 2 after stop_stream;start_stream
    send_failed,        \* history: some broadcast send has raised
    pending,            \* history: the tasks inside a broadcast_json call, in call order
    orch                \* SO100DemoOrchestrator.run: where it is and what it has done

vars == <<active_connections, lock, streaming, stream_task, behavior_task,
          robot_connected, is_mock, tasks, handler, peer, running,
          last, quiet, trail, send_failed, pending, orch>>

\* The variables of the server.
server_vars == <<active_connections, lock, streaming, stream_task, behavior_task,
                 robot_connected, is_mock, tasks, handler, peer, running,
                 last, quiet, trail, send_failed, pending>>

\* A slot with no task in it.
IdleTask ==
    [kind |-> "none", pc |-> "done", i |-> 0, cancel |-> FALSE, b |-> "idle",
     todo |-> {}, failed |-> {}, got |-> {}, snap |-> {}, log |-> <<>>,
     how |-> "none", stopped |-> FALSE, superseded |-> FALSE, fetched |-> FALSE]

\* Mutant: the coroutine has run up to its first broadcast when create_task
\* returns.
NewTask_Running(k) ==
    [IdleTask EXCEPT !.kind = k, !.pc = IF k = "stream" THEN "frame" ELSE "searching",
                     !.fetched = (k = "stream")]

\* asyncio.create_task(coro): the coroutine has not run yet.
NewTask(k) == [IdleTask EXCEPT !.kind = k, !.pc = "start"]

\* What a step sent or completed.  msg: the incoming message the step handled;
\* arg: for a chat message, whether the engine raised and what the message
\* held; for start_stream, whether a stream loop was active and whether the
\* command created a task;
\* raised: the handler's reply raised;
\* text: the text of a chat reply; kept: the step left the set, the lock, the
\* flag, the handles, the tasks and every handler as they were.
NoEvt ==
    [type |-> "none", to |-> 0, ev |-> "none", by |-> NoProc,
     snap |-> {}, failed |-> {}, got |-> {},
     msg |-> "none", arg |-> <<>>, text |-> <<>>, kept |-> FALSE,
     raised |-> FALSE]

SendEvt(c, e, p) == [NoEvt EXCEPT !.type = "send", !.to = c, !.ev = e, !.by = p]

\* The orchestrator before run is called.  search: how the search phase ended;
\* grasp_started: run_grasp_loop was called; targets: the send_joint_targets
\* calls made so far; how: how run ended; connects: the robot.connect() calls
\* that returned; disconnects: the robot.disconnect() calls made; caller: who
\* called run_search_loop; max_steps: its argument; result: what it returned;
\* obs: the observations it took; seen: those on which detect_fn was true.
NoRun ==
    [pc |-> "idle", policy_path |-> "None", step |-> 0, robot |-> "off",
     search |-> "none", grasp_started |-> FALSE, targets |-> 0, how |-> "none",
     connects |-> 0, disconnects |-> 0,
     caller |-> "none", max_steps |-> 0, result |-> <<>>, obs |-> 0, seen |-> 0]

Init ==
    /\ active_connections = {}
    /\ lock = [holder |-> NoProc, waiters |-> <<>>]
    /\ streaming = FALSE
    /\ stream_task = NoTask
    /\ behavior_task = NoTask
    /\ robot_connected = FALSE
    /\ is_mock \in BOOLEAN
    /\ tasks = [t \in TaskIds |-> IdleTask]
    /\ handler = [c \in Conns |-> "new"]
    /\ peer = [c \in Conns |-> "up"]
    /\ running = NoProc
    /\ last = NoEvt
    /\ quiet = FALSE
    /\ trail = 0
    /\ send_failed = FALSE
    /\ pending = <<>>
    /\ orch = NoRun

----------------------------------------------------------------------------
\* asyncio.Lock

\* Mutant: the lock never makes anyone wait.
LockFree_Always == TRUE

LockFree == lock.holder = NoProc

\* Lock.acquire() by p: taken at once when free, else p queues.
Acquire(l, p) ==
    IF l.holder = NoProc THEN [l EXCEPT !.holder = p]
    ELSE [l EXCEPT !.waiters = Append(@, p)]

\* Mutant: a cancelled coroutine keeps the lock it holds or queues for.
Abandon_Keeps(l, p) == l

\* Mutant: the waiter that came last is woken.
Release_Last(l) ==
    IF l.waiters = <<>> THEN [l EXCEPT !.holder = NoProc]
    ELSE [holder |-> l.waiters[Len(l.waiters)],
          waiters |-> SubSeq(l.waiters, 1, Len(l.waiters) - 1)]

\* Lock.release(): the first waiter is woken and is the next holder.
Release(l) ==
    IF l.waiters = <<>> THEN [l EXCEPT !.holder = NoProc]
    ELSE [holder |-> Head(l.waiters), waiters |-> Tail(l.waiters)]

RECURSIVE Without(_, _)
Without(s, p) ==
    IF s = <<>> THEN <<>>
    ELSE IF Head(s) = p THEN Without(Tail(s), p)
    ELSE <<Head(s)>> \o Without(Tail(s), p)

\* A coroutine cancelled while it holds or waits for the lock lets go of it.
Abandon(l, p) ==
    IF l.holder = p THEN Release(l)
    ELSE [l EXCEPT !.waiters = Without(@, p)]

----------------------------------------------------------------------------
\* Tasks

\* A finished task no handle refers to is gone.
Reap(ts, st, bt) ==
    [t \in TaskIds |->
        IF ts[t].kind # "none" /\ ts[t].pc = "done" /\ t \notin {st, bt}
        THEN IdleTask ELSE ts[t]]

\* The handle on the task in `slot` is dropped or overwritten: a task that
\* has ended is gone, one that has not lives on with no handle to it.
FreeOrphans(ts) == {o \in OrphanSlots : ts[o].kind = "none"}
Unended(rec) == rec.kind # "none" /\ rec.pc # "done"
CanDrop(ts, slot) == Unended(ts[slot]) => FreeOrphans(ts) # {}
NewName(ts, slot) ==
    IF Unended(ts[slot])
    THEN CHOOSE o \in FreeOrphans(ts) : \A u \in FreeOrphans(ts) : o <= u
    ELSE slot
Drop(ts, slot) ==
    IF Unended(ts[slot])
    THEN [ts EXCEPT ![NewName(ts, slot)] = ts[slot], ![slot] = IdleTask]
    ELSE [ts EXCEPT ![slot] = IdleTask]
Renamed(l, from, to) ==
    [holder |-> IF l.holder = T(from) THEN T(to) ELSE l.holder,
     waiters |-> [k \in DOMAIN l.waiters |->
                    IF l.waiters[k] = T(from) THEN T(to) ELSE l.waiters[k]]]

\* The coroutine ends: it returned, raised, or was cancelled.
Finish(rec, h) ==
    [rec EXCEPT !.pc = "done", !.how = h, !.b = "idle", !.cancel = FALSE,
                !.todo = {}, !.failed = {}, !.got = {}, !.snap = {}]

\* Mutant: an exception raised in one task ends every task.
Failed_All(ts, t, h) ==
    [u \in TaskIds |-> IF Unended(ts[u]) THEN Finish(ts[u], h) ELSE ts[u]]

\* An exception that nothing catches ends the task it is raised in; the event
\* loop logs it and goes on.
Failed(ts, t, h) == [ts EXCEPT ![t] = Finish(ts[t], h)]

\* The step changed nothing but task t: the set, the lock, the handles, the
\* other tasks and the handlers are as they were.
Isolated(t) ==
    /\ active_connections' = active_connections
    /\ lock' = lock
    /\ stream_task' = stream_task
    /\ behavior_task' = behavior_task
    /\ handler' = handler
    /\ \A u \in TaskIds \ {t} : tasks'[u] = tasks[u]

\* What a step in which the frame source raised leaves in the history.
FailureEvt(t) == [NoEvt EXCEPT !.type = "failure", !.by = T(t), !.kept = Isolated(t)]

\* Task.cancel(): a CancelledError is thrown into the task at its next step,
\* which ends it.  That step is visible to the rest of the program only when
\* the task holds the lock (it is inside the pass, or was just handed the lock):
\* the lock is released by it.  Otherwise (the task has not started, sleeps, or
\* queues for the lock) the step only takes the task out of the lock's queue,
\* and the model takes it together with the cancel.  `holds`: the task holds
\* the lock.
CancelTask(rec, holds) ==
    IF rec.kind = "none" \/ rec.pc = "done" THEN rec
    ELSE IF ~holds THEN Finish(rec, "cancelled")
    ELSE [rec EXCEPT !.cancel = TRUE]

\* The statements at which a task is suspended with nothing to wait for but the loop.
SleepLabels == {"sleep", "search_sleep", "grasp_sleep"}

\* The statements that are a call of manager.broadcast_json, and what each sends.
Ev(pc) ==
    CASE pc = "frame" -> "frame"
      [] pc = "searching" -> "searching"
      [] pc = "grasping" -> "grasping"
      [] pc = "done_status" -> "done"
      [] pc = "error" -> "error"
      [] OTHER -> "reasoning"

BroadcastLabels ==
    {"frame", "searching", "intro", "step", "found", "grasping", "grasp",
     "completed", "done_status", "error"}

\* Mutant: the error status is broadcast but the search loop goes on.
AfterErrorStatus_Continue == "search_sleep"

\* `return` after the error status of a failed get_observation.
AfterErrorStatus == "done"

\* The statement after a broadcast_json call returns.
NextLabel(pc) ==
    CASE pc = "frame" -> "sleep"
      [] pc = "searching" -> "intro"
      [] pc = "intro" -> "obs"
      [] pc = "step" -> "search_sleep"
      [] pc = "found" -> "grasping"
      [] pc = "grasping" -> "grasp"
      [] pc = "grasp" -> "grasp_sleep"
      [] pc = "completed" -> "done_status"
      [] pc = "done_status" -> "done"
      [] pc = "error" -> AfterErrorStatus
      [] OTHER -> "done"

\* The lock after task t went from record `old` to `new` by a cancel.
LockAfterCancel(l, t, old, new) ==
    IF Unended(old) /\ ~Unended(new) THEN [l EXCEPT !.waiters = Without(@, T(t))] ELSE l

Live(t) == tasks[t].kind # "none" /\ tasks[t].pc # "done" /\ ~tasks[t].cancel

\* The stream loops that can still fetch an observation or broadcast a frame:
\* started or not, and with no cancellation pending.
LiveStreams == {t \in TaskIds : tasks[t].kind = "stream" /\ Live(t)}


----------------------------------------------------------------------------
\* The frame source (robot_interface)

\* robot_interface.connect(): the mock always connects; the arm may raise.
ConnectOutcomes ==
    IF is_mock \/ robot_connected THEN {"ok"} ELSE {"ok", "raise"}

\* robot_interface.get_observation(): raises when not connected; the arm may
\* raise at any call.
ObsOutcomes ==
    IF ~robot_connected THEN {"raise"}
    ELSE IF is_mock THEN {"ok"} ELSE {"ok", "raise"}

\* Mutant: a stream loop that ends disconnects the frame source.
FrameSourceAfterExit_Disconnected == FALSE

\* The stream loop's `finally` only logs, and neither stop_stream nor
\* manager.disconnect touches robot_interface: the frame source stays as it is.
FrameSourceAfterExit == robot_connected

\* Mutant: a call into the frame source suspends its caller until it returns,
\* as an awaited call would.
DuringCall_Suspended(t) == NoProc

\* connect, get_observation and send_joint_targets are plain calls: the caller
\* keeps the event loop from the call to its return.
DuringCall(t) == T(t)

\* The statements at which a task is inside a call of the frame source.
CallLabels == {"connecting", "fetching", "targeting"}
InCall(t) == tasks[t].kind # "none" /\ tasks[t].pc \in CallLabels

----------------------------------------------------------------------------
\* ConnectionManager.broadcast_json, run by task t

\* ws.send_json(message) raises when the peer is gone.
SendRaises(ws) == peer[ws] = "gone"

\* Mutant: the marked recipients are never discarded.
Evict_None(active, failed) == active

\* Mutant: the recipients that were not marked are discarded.
Evict_Inverted(active, failed) == active \cap failed

\* for ws in disconnect: self.active_connections.discard(ws)
Evict(active, failed) == active \ failed

\* async with self._lock: entered; the pass begins over the set as it is.
EnterPass(rec) ==
    [rec EXCEPT !.b = "pass", !.todo = active_connections,
                !.snap = active_connections, !.failed = {}, !.got = {}]

\* The task calls broadcast_json and reaches `async with self._lock`.
BeginBroadcast(t) ==
    /\ running = T(t)
    /\ tasks[t].pc \in BroadcastLabels
    /\ tasks[t].b = "idle"
    /\ lock' = Acquire(lock, T(t))
    /\ LET rec == [tasks[t] EXCEPT !.log = IF tasks[t].kind = "behavior"
                                              THEN Append(@, Ev(tasks[t].pc)) ELSE @]
       IN IF LockFree
          THEN /\ tasks' = [tasks EXCEPT ![t] = EnterPass(rec)]
               /\ running' = T(t)
          ELSE /\ tasks' = [tasks EXCEPT ![t] = [rec EXCEPT !.b = "wait"]]
               /\ running' = NoProc
    /\ last' = NoEvt
    /\ trail' = 0
    /\ UNCHANGED <<active_connections, streaming, stream_task, behavior_task,
                   robot_connected, is_mock, orch, handler, peer, quiet, send_failed>>
    /\ pending' = Append(pending, t)

\* The lock was released to the waiting task: it enters the pass.
LockGranted(t) ==
    /\ running = NoProc
    /\ tasks[t].b = "wait"
    /\ ~tasks[t].cancel
    /\ lock.holder = T(t)
    /\ tasks' = [tasks EXCEPT ![t] = EnterPass(tasks[t])]
    /\ running' = T(t)
    /\ last' = NoEvt
    /\ trail' = 0
    /\ UNCHANGED <<active_connections, lock, streaming, stream_task, behavior_task,
                   robot_connected, is_mock, orch, handler, peer, quiet, send_failed, pending>>

\* Mutant: a recipient whose send raised is tried again.
AfterFailure_Retry(todo, ws) == todo

\* `except Exception`: the recipient is marked and the loop goes on to the
\* next one.
AfterFailure(todo, ws) == todo \ {ws}

\* One iteration of `for ws in self.active_connections`: the send to ws, which
\* delivers or raises (the recipient is then marked), and the yield after it.
PassSend(t, ws) ==
    /\ running \in {NoProc, T(t)}
    /\ tasks[t].b = "pass"
    /\ ~tasks[t].cancel
    /\ ws \in tasks[t].todo
    /\ IF SendRaises(ws)
       THEN /\ tasks' = [tasks EXCEPT ![t].todo = AfterFailure(@, ws),
                                      ![t].failed = @ \cup {ws}]
            /\ last' = NoEvt
            /\ send_failed' = TRUE
       ELSE /\ tasks' = [tasks EXCEPT ![t].todo = @ \ {ws}, ![t].got = @ \cup {ws}]
            /\ last' = SendEvt(ws, Ev(tasks[t].pc), T(t))
            /\ send_failed' = send_failed
    /\ running' = NoProc
    /\ trail' = 0
    /\ UNCHANGED <<active_connections, lock, streaming, stream_task, behavior_task,
                   robot_connected, is_mock, orch, handler, peer, quiet, pending>>

\* The loop is over: the marked recipients are discarded, the lock is released
\* and the caller goes on to the statement after the call.
PassFinish(t) ==
    /\ running \in {NoProc, T(t)}
    /\ tasks[t].b = "pass"
    /\ ~tasks[t].cancel
    /\ tasks[t].todo = {}
    /\ active_connections' = Evict(active_connections, tasks[t].failed)
    /\ lock' = Release(lock)
    /\ LET rec == tasks[t]
           next == NextLabel(rec.pc)
           cont == [rec EXCEPT !.pc = next, !.b = "idle", !.i = IF next \in {"obs", "grasp"} THEN 0 ELSE @,
                               !.todo = {}, !.failed = {}, !.got = {}, !.snap = {}]
       IN /\ tasks' = Reap([tasks EXCEPT ![t] = IF next = "done" THEN Finish(rec, "returned") ELSE cont],
                           stream_task, behavior_task)
          /\ running' = IF next \in SleepLabels \cup {"done"} THEN NoProc ELSE T(t)
          /\ last' = [NoEvt EXCEPT !.type = "pass_done", !.by = T(t), !.ev = Ev(rec.pc),
                                   !.snap = rec.snap, !.failed = rec.failed, !.got = rec.got]
    /\ trail' = 0
    /\ UNCHANGED <<streaming, stream_task, behavior_task, robot_connected, is_mock, orch,
                   handler, peer, quiet, send_failed>>
    /\ pending' = Without(pending, t)

\* Mutant: the `except` around the send catches the CancelledError too, so a
\* task cancelled inside the pass goes on with the pass.
OnCancel_Swallowed(rec) ==
    IF rec.b = "pass" THEN [rec EXCEPT !.cancel = FALSE] ELSE Finish(rec, "cancelled")

\* CancelledError is no Exception: `except Exception` around the send does
\* not catch it, and it ends the task.
OnCancel(rec) == Finish(rec, "cancelled")

\* A cancelled task gets CancelledError where it is suspended: it leaves the
\* `async with` (the lock is let go, nothing is discarded) and ends.
Cancelled(t) ==
    /\ running = NoProc
    /\ tasks[t].kind # "none"
    /\ tasks[t].cancel
    /\ LET new == OnCancel(tasks[t])
       IN /\ lock' = IF new.pc = "done" THEN Abandon(lock, T(t)) ELSE lock
          /\ tasks' = Reap([tasks EXCEPT ![t] = new], stream_task, behavior_task)
    /\ robot_connected' = IF tasks[t].kind = "stream" THEN FrameSourceAfterExit
                          ELSE robot_connected
    /\ last' = NoEvt
    /\ trail' = 0
    /\ UNCHANGED <<active_connections, streaming, stream_task, behavior_task,
                   is_mock, orch, handler, peer, running, quiet, send_failed, pending>>

----------------------------------------------------------------------------
\* camera_stream_loop, run by task t

\* Mutant: a failed connect leaves the flag as it is.
FlagAfterConnectFailure_Kept == streaming

\* `streaming = False` in the except clause around robot_interface.connect().
FlagAfterConnectFailure == FALSE

\* The task's first step: it calls robot_interface.connect().
StreamConnect(t) ==
    /\ running = NoProc
    /\ tasks[t].kind = "stream"
    /\ tasks[t].pc = "start"
    /\ ~tasks[t].cancel
    /\ tasks' = [tasks EXCEPT ![t].pc = "connecting"]
    /\ running' = DuringCall(t)
    /\ last' = NoEvt
    /\ trail' = 0
    /\ UNCHANGED <<active_connections, lock, streaming, stream_task, behavior_task,
                   robot_connected, is_mock, orch, handler, peer, quiet, send_failed, pending>>

\* robot_interface.connect() returns or raises; on failure the flag is reset
\* and the loop returns.
StreamConnected(t) ==
    /\ running = DuringCall(t)
    /\ tasks[t].kind = "stream"
    /\ tasks[t].pc = "connecting"
    /\ ~tasks[t].cancel
    /\ \E o \in ConnectOutcomes :
         IF o = "ok"
         THEN /\ robot_connected' = TRUE
              /\ tasks' = [tasks EXCEPT ![t].pc = "loop"]
              /\ running' = T(t)
              /\ streaming' = streaming
         ELSE /\ robot_connected' = robot_connected
              /\ tasks' = Reap(Failed(tasks, t, "connect_failed"), stream_task, behavior_task)
              /\ running' = NoProc
              /\ streaming' = FlagAfterConnectFailure
    /\ trail' = 0
    /\ UNCHANGED <<active_connections, lock, stream_task, behavior_task, is_mock, orch,
                   handler, peer, quiet, send_failed, pending>>
    /\ last' = IF tasks'[t].pc = "loop" THEN NoEvt ELSE FailureEvt(t)

\* `while streaming:`: the loop returns, or calls
\* robot_interface.get_observation().
StreamLoop(t) ==
    /\ running = T(t)
    /\ tasks[t].kind = "stream"
    /\ tasks[t].pc = "loop"
    /\ IF ~streaming
       THEN /\ tasks' = Reap([tasks EXCEPT ![t] = Finish(tasks[t], "returned")],
                             stream_task, behavior_task)
            /\ running' = NoProc
            /\ robot_connected' = FrameSourceAfterExit
       ELSE /\ tasks' = [tasks EXCEPT ![t].pc = "fetching"]
            /\ running' = DuringCall(t)
            /\ robot_connected' = robot_connected
    /\ last' = NoEvt
    /\ trail' = 0
    /\ UNCHANGED <<active_connections, lock, streaming, stream_task, behavior_task,
                   is_mock, orch, handler, peer, quiet, send_failed, pending>>

\* get_observation() returns a frame, or raises: the exception leaves the loop
\* through `finally`, which only logs.
StreamFetched(t) ==
    /\ running = DuringCall(t)
    /\ tasks[t].kind = "stream"
    /\ tasks[t].pc = "fetching"
    /\ ~tasks[t].cancel
    /\ \E o \in ObsOutcomes :
              IF o = "ok"
              THEN /\ tasks' = [tasks EXCEPT ![t].pc = "frame", ![t].fetched = TRUE]
                   /\ running' = T(t)
                   /\ robot_connected' = robot_connected
              ELSE /\ tasks' = Reap(Failed([tasks EXCEPT ![t].fetched = TRUE], t, "raised"),
                                    stream_task, behavior_task)
                   /\ running' = NoProc
                   /\ robot_connected' = FrameSourceAfterExit
    /\ trail' = 0
    /\ UNCHANGED <<active_connections, lock, streaming, stream_task, behavior_task,
                   is_mock, orch, handler, peer, quiet, send_failed, pending>>
    /\ last' = IF tasks'[t].pc = "frame" THEN NoEvt ELSE FailureEvt(t)

\* Mutant: the loop never comes back from its sleep.
AfterSleep_Stuck == "sleep"

\* After the sleep the loop is at `while streaming:` again.
AfterSleep == "loop"

\* await asyncio.sleep(1.0 / demo_cfg.demo_fps) returns.
StreamWake(t) ==
    /\ running = NoProc
    /\ tasks[t].kind = "stream"
    /\ tasks[t].pc = "sleep"
    /\ ~tasks[t].cancel
    /\ tasks' = [tasks EXCEPT ![t].pc = AfterSleep]
    /\ running' = T(t)
    /\ last' = NoEvt
    /\ trail' = 0
    /\ UNCHANGED <<active_connections, lock, streaming, stream_task, behavior_task,
                   robot_connected, is_mock, orch, handler, peer, quiet, send_failed, pending>>

----------------------------------------------------------------------------
\* _mock_search_and_grasp, run by task t

\* The task's first step reaches the first broadcast_json call.
BehaviorStart(t) ==
    /\ running = NoProc
    /\ tasks[t].kind = "behavior"
    /\ tasks[t].pc = "start"
    /\ ~tasks[t].cancel
    /\ tasks' = [tasks EXCEPT ![t].pc = "searching"]
    /\ running' = T(t)
    /\ last' = NoEvt
    /\ trail' = 0
    /\ UNCHANGED <<active_connections, lock, streaming, stream_task, behavior_task,
                   robot_connected, is_mock, orch, handler, peer, quiet, send_failed, pending>>

\* A search step begins: it calls robot_interface.get_observation().
BehaviorObs(t) ==
    /\ running = T(t)
    /\ tasks[t].kind = "behavior"
    /\ tasks[t].pc = "obs"
    /\ tasks' = [tasks EXCEPT ![t].pc = "fetching"]
    /\ running' = DuringCall(t)
    /\ last' = NoEvt
    /\ trail' = 0
    /\ UNCHANGED <<active_connections, lock, streaming, stream_task, behavior_task,
                   robot_connected, is_mock, orch, handler, peer, quiet, send_failed, pending>>

\* get_observation() returns, and the step calls send_joint_targets with the
\* joints it got; or it raises, and the error status is broadcast instead.
BehaviorFetched(t) ==
    /\ running = DuringCall(t)
    /\ tasks[t].kind = "behavior"
    /\ tasks[t].pc = "fetching"
    /\ ~tasks[t].cancel
    /\ \E o \in ObsOutcomes :
         IF o = "ok"
         THEN /\ tasks' = [tasks EXCEPT ![t].pc = "targeting"]
              /\ running' = DuringCall(t)
         ELSE /\ tasks' = [tasks EXCEPT ![t].pc = "error"]
              /\ running' = T(t)
    /\ trail' = 0
    /\ UNCHANGED <<active_connections, lock, streaming, stream_task, behavior_task,
                   robot_connected, is_mock, orch, handler, peer, quiet, send_failed, pending>>
    /\ last' = IF tasks'[t].pc = "targeting" THEN NoEvt ELSE FailureEvt(t)

\* send_joint_targets() returns: the step goes on to its broadcast.
BehaviorTargeted(t) ==
    /\ running = DuringCall(t)
    /\ tasks[t].kind = "behavior"
    /\ tasks[t].pc = "targeting"
    /\ ~tasks[t].cancel
    /\ tasks' = [tasks EXCEPT ![t].pc = "step"]
    /\ running' = T(t)
    /\ last' = NoEvt
    /\ trail' = 0
    /\ UNCHANGED <<active_connections, lock, streaming, stream_task, behavior_task,
                   robot_connected, is_mock, orch, handler, peer, quiet, send_failed, pending>>

\* Mutant: the search loop is over one iteration early.
SearchOver_Early(n) == n >= SearchSteps - 1

\* `for step in range(10)`: the loop is over after the tenth iteration.
SearchOver(n) == n >= SearchSteps

\* `for step in range(5)`
GraspOver(n) == n >= GraspSteps

\* await asyncio.sleep(...) returns: the next iteration, or the loop is over.
BehaviorWake(t) ==
    /\ running = NoProc
    /\ tasks[t].kind = "behavior"
    /\ tasks[t].pc \in {"search_sleep", "grasp_sleep"}
    /\ ~tasks[t].cancel
    /\ LET n == tasks[t].i + 1
           next == IF tasks[t].pc = "search_sleep"
                   THEN (IF SearchOver(n) THEN "found" ELSE "obs")
                   ELSE (IF GraspOver(n) THEN "completed" ELSE "grasp")
       IN tasks' = [tasks EXCEPT ![t].i = n, ![t].pc = next]
    /\ running' = T(t)
    /\ last' = NoEvt
    /\ trail' = 0
    /\ UNCHANGED <<active_connections, lock, streaming, stream_task, behavior_task,
                   robot_connected, is_mock, orch, handler, peer, quiet, send_failed, pending>>


----------------------------------------------------------------------------
\* websocket_endpoint, one per connection c

\* Mutant: discarding a connection that is not in the set empties the set.
Discard_Clears(s, c) == IF c \in s THEN s \ {c} ELSE {}

\* self.active_connections.discard(websocket)
Discard(s, c) == s \ {c}

\* manager.disconnect(websocket) in an except clause: the connection is
\* discarded under the lock, at once when the lock is free.
ExitLock(c) == IF LockFree THEN lock ELSE Acquire(lock, H(c))
ExitActive(c) == IF LockFree THEN Discard(active_connections, c) ELSE active_connections
ExitEvt(c) ==
    IF LockFree
    THEN [NoEvt EXCEPT !.type = "deregistered", !.to = c, !.snap = active_connections]
    ELSE NoEvt
ExitPc(c) == IF LockFree THEN "closed" ELSE "dereg_wait"

\* When the endpoint returns the server closes the socket.
ExitPeer(c) == IF LockFree THEN [peer EXCEPT ![c] = "gone"] ELSE peer

\* manager.connect(websocket): accept, then add under the lock.  Connections
\* are numbered in the order in which their endpoints start.
Connect(c) ==
    /\ running = NoProc
    /\ handler[c] = "new"
    /\ \A d \in Conns : d < c => handler[d] # "new"
    /\ peer[c] = "up"
    /\ IF LockFree
       THEN /\ active_connections' = active_connections \cup {c}
            /\ handler' = [handler EXCEPT ![c] = "recv"]
            /\ lock' = lock
       ELSE /\ active_connections' = active_connections
            /\ handler' = [handler EXCEPT ![c] = "reg_wait"]
            /\ lock' = Acquire(lock, H(c))
    /\ last' = NoEvt
    /\ trail' = 0
    /\ UNCHANGED <<streaming, stream_task, behavior_task, robot_connected, is_mock, orch,
                   tasks, peer, running, quiet, send_failed, pending>>

\* manager.connect got the lock it waited for.
Registered(c) ==
    /\ running = NoProc
    /\ handler[c] = "reg_wait"
    /\ lock.holder = H(c)
    /\ active_connections' = active_connections \cup {c}
    /\ lock' = Release(lock)
    /\ handler' = [handler EXCEPT ![c] = "recv"]
    /\ last' = NoEvt
    /\ trail' = 0
    /\ UNCHANGED <<streaming, stream_task, behavior_task, robot_connected, is_mock, orch,
                   tasks, peer, running, quiet, send_failed, pending>>

\* The client goes away.
PeerClose(c) ==
    /\ running = NoProc
    /\ handler[c] \in {"reg_wait", "recv"}
    /\ peer[c] = "up"
    /\ peer' = [peer EXCEPT ![c] = "gone"]
    /\ last' = NoEvt
    /\ trail' = 0
    /\ UNCHANGED <<active_connections, lock, streaming, stream_task, behavior_task,
                   robot_connected, is_mock, orch, tasks, handler, running, quiet, send_failed, pending>>

\* Mutant: when a client disconnects the stream is switched off.
FlagAfterDisconnect_Cleared == FALSE

\* The except clauses of the endpoint and manager.disconnect assign neither
\* the flag nor a handle.
FlagAfterDisconnect == streaming

\* The step changed nothing but the membership of c and c's own handler.
OnlyMembership(c) ==
    /\ active_connections' \in {active_connections, active_connections \ {c}}
    /\ streaming' = streaming
    /\ stream_task' = stream_task
    /\ behavior_task' = behavior_task
    /\ tasks' = tasks
    /\ robot_connected' = robot_connected
    /\ \A d \in Conns \ {c} : handler'[d] = handler[d]

\* receive_text raises WebSocketDisconnect: manager.disconnect(websocket).
Disconnect(c) ==
    /\ running = NoProc
    /\ handler[c] = "recv"
    /\ peer[c] = "gone"
    /\ active_connections' = ExitActive(c)
    /\ lock' = ExitLock(c)
    /\ handler' = [handler EXCEPT ![c] = ExitPc(c)]
    /\ streaming' = FlagAfterDisconnect
    /\ trail' = 0
    /\ UNCHANGED <<stream_task, behavior_task, robot_connected, is_mock, orch,
                   tasks, peer, running, quiet, send_failed, pending>>
    /\ last' = [ExitEvt(c) EXCEPT !.msg = "disconnect", !.kept = OnlyMembership(c)]

\* manager.disconnect got the lock it waited for.
Deregistered(c) ==
    /\ running = NoProc
    /\ handler[c] = "dereg_wait"
    /\ lock.holder = H(c)
    /\ active_connections' = Discard(active_connections, c)
    /\ lock' = Release(lock)
    /\ handler' = [handler EXCEPT ![c] = "closed"]
    /\ peer' = [peer EXCEPT ![c] = "gone"]
    /\ streaming' = FlagAfterDisconnect
    /\ trail' = 0
    /\ UNCHANGED <<stream_task, behavior_task, robot_connected, is_mock, orch,
                   tasks, running, quiet, send_failed, pending>>
    /\ last' = [NoEvt EXCEPT !.type = "deregistered", !.to = c, !.snap = active_connections,
                             !.msg = "disconnect", !.kept = OnlyMembership(c)]

\* Mutant: an exception raised by a reply ends the endpoint with the
\* connection still in the set.
AfterReplyActive_Leaks(c) == active_connections

\* await websocket.send_json(...) in the endpoint raises when the peer is gone
\* (the message was received before the peer went away): the outer except
\* clause runs manager.disconnect(websocket) and the endpoint returns.
AfterReplyActive(c) == IF SendRaises(c) THEN ExitActive(c) ELSE active_connections
AfterReplyHandler(c) ==
    IF SendRaises(c) THEN [handler EXCEPT ![c] = ExitPc(c)] ELSE handler
AfterReplyLock(l, c) ==
    IF SendRaises(c) /\ ~LockFree THEN Acquire(l, H(c)) ELSE l

\* What the reply leaves in the history: the event sent, or that it raised.
Reply(c, evt) ==
    IF SendRaises(c) THEN [ExitEvt(c) EXCEPT !.by = H(c), !.raised = TRUE] ELSE evt

\* The step leaves the shared state and every handler as they were.
Kept ==
    /\ active_connections' = active_connections
    /\ lock' = lock
    /\ streaming' = streaming
    /\ stream_task' = stream_task
    /\ behavior_task' = behavior_task
    /\ tasks' = tasks
    /\ handler' = handler

\* await websocket.send_json({"type": "error", ...}); the loop goes on to the
\* next receive_text.
ReplyError(c) ==
    /\ running = NoProc
    /\ handler[c] = "recv"
    /\ active_connections' = AfterReplyActive(c)
    /\ handler' = AfterReplyHandler(c)
    /\ lock' = AfterReplyLock(lock, c)
    /\ trail' = 0
    /\ UNCHANGED <<streaming, stream_task, behavior_task, robot_connected, is_mock, orch,
                   tasks, peer, running, quiet, send_failed, pending>>
    /\ last' = Reply(c, [SendEvt(c, "error", H(c)) EXCEPT !.msg = "malformed", !.kept = Kept])

\* A text that json.loads rejects: the JSONDecodeError is caught and reported.
InvalidJson(c) == ReplyError(c)

\* A JSON object whose "type" is neither "chat" nor "command".
UnknownType(c) == ReplyError(c)

\* A command whose "action" is none of the three known ones.
UnknownAction(c) == ReplyError(c)

\* A text that json.loads accepts and that is no object (a list, a number, a
\* string, null): data.get raises AttributeError, which only the outer
\* `except Exception` catches: manager.disconnect(websocket), and the endpoint
\* returns without a reply.
NotAnObject(c) ==
    /\ running = NoProc
    /\ handler[c] = "recv"
    /\ active_connections' = ExitActive(c)
    /\ lock' = ExitLock(c)
    /\ handler' = [handler EXCEPT ![c] = ExitPc(c)]
    /\ peer' = ExitPeer(c)
    /\ trail' = 0
    /\ UNCHANGED <<streaming, stream_task, behavior_task, robot_connected, is_mock, orch,
                   tasks, running, quiet, send_failed, pending>>
    /\ last' = [ExitEvt(c) EXCEPT !.by = H(c), !.msg = "malformed", !.kept = Kept]

----------------------------------------------------------------------------
\* Chat: llm_engine.py and the chat branch of websocket_endpoint

\* LLMConfig.provider as configured, in some spelling.
Providers == {"gemini", "Claude", "qwen", "openai"}

\* str.lower() on the spellings above.
Lower(p) == IF p = "Claude" THEN "claude" ELSE p

\* make_llm_engine: the engine class for a provider.
make_llm_engine(p) ==
    CASE Lower(p) = "gemini" -> "GeminiEngine"
      [] Lower(p) = "claude" -> "ClaudeEngine"
      [] Lower(p) = "qwen" -> "QwenEngine"
      [] OTHER -> "StubEngine"

\* The chat message a client sends, with its "text".  (One without a "text"
\* is <<>>; it is answered as one with the empty text, see TextOf.)
ChatMessages == {<<"hello">>}

\* str(data.get("text", ""))
TextOf(m) == IF m = <<>> THEN "" ELSE m[1]

\* StubEngine.chat: the last user message, quoted, between a fixed prefix and
\* a fixed suffix.
StubContent(text) ==
    <<"[STUB LLM] I received: ", <<"repr", text>>,
      ". Configure a real LLM to get meaningful answers.">>

\* engine.chat(messages=[{"role": "user", "content": text}]): the three
\* providers' engines raise NotImplementedError.
EngineChat(engine, text) ==
    IF engine = "StubEngine"
    THEN [raised |-> FALSE, content |-> StubContent(text)]
    ELSE [raised |-> TRUE, content |-> <<>>]

\* Mutant: the fallback replies with an empty text.
OnNotImplemented_Empty(text) == <<>>

\* except NotImplementedError: the reply of a fresh StubEngine.
OnNotImplemented(text) == EngineChat("StubEngine", text).content

\* The text of the chat reply.
ChatReply(engine, text) ==
    IF EngineChat(engine, text).raised
    THEN OnNotImplemented(text)
    ELSE EngineChat(engine, text).content

\* The engines the configured providers give, and whether their chat raises.
Engines == {make_llm_engine(p) : p \in Providers}
EngineRaises == {EngineChat(e, "").raised : e \in Engines}

\* {"type": "chat", "text": ...}.  The engine is built once, when the module
\* is loaded, from the configured provider; the chat branch reads nothing else
\* of the configuration.  Engines differ for the endpoint only in whether
\* their chat raises, and one engine of either kind is drawn here.
Chat(c) ==
    /\ running = NoProc
    /\ handler[c] = "recv"
    /\ active_connections' = AfterReplyActive(c)
    /\ handler' = AfterReplyHandler(c)
    /\ lock' = AfterReplyLock(lock, c)
    /\ trail' = 0
    /\ UNCHANGED <<streaming, stream_task, behavior_task, robot_connected, is_mock, orch,
                   tasks, peer, running, quiet, send_failed, pending>>
    /\ \E r \in EngineRaises, m \in ChatMessages :
         LET engine == CHOOSE e \in Engines : EngineChat(e, TextOf(m)).raised = r
         IN last' = Reply(c, [SendEvt(c, "chat", H(c)) EXCEPT
                                 !.msg = "chat",
                                 !.arg = <<EngineChat(engine, TextOf(m)).raised, m>>,
                                 !.text = ChatReply(engine, TextOf(m)),
                                 !.kept = Kept])

----------------------------------------------------------------------------

\* Mutant: start_stream launches a loop whether or not one is active.
StartIsNoOp_Never == FALSE

\* `if not streaming:` of the start_stream command.
StartIsNoOp == streaming

\* {"type": "command", "action": "start_stream"}
StartStream(c) ==
    /\ running = NoProc
    /\ handler[c] = "recv"
    /\ IF StartIsNoOp
       THEN /\ UNCHANGED <<streaming, stream_task, tasks>>
            /\ lock' = AfterReplyLock(lock, c)
       ELSE /\ CanDrop(tasks, StreamSlot)
            /\ streaming' = TRUE
            /\ stream_task' = StreamSlot
            /\ tasks' = [Drop(tasks, StreamSlot) EXCEPT ![StreamSlot] = NewTask("stream")]
            /\ lock' = AfterReplyLock(Renamed(lock, StreamSlot, NewName(tasks, StreamSlot)), c)
    /\ active_connections' = AfterReplyActive(c)
    /\ handler' = AfterReplyHandler(c)
    /\ quiet' = FALSE
    /\ trail' = IF trail = 1 THEN 2 ELSE 0
    /\ UNCHANGED <<behavior_task, robot_connected, is_mock, orch,
                   peer, running, send_failed, pending>>
    /\ last' = Reply(c, [SendEvt(c, "streaming_started", H(c)) EXCEPT
                            !.msg = "start_stream",
                            !.arg = <<LiveStreams # {}, ~StartIsNoOp>>,
                            !.kept = Kept])

\* Mutant: stop_stream clears the flag and the handle but cancels nothing.
StopCancel_Noop(rec, holds) == rec

\* stream_task.cancel() of the stop_stream command.
StopCancel(rec, holds) == CancelTask(rec, holds)

\* {"type": "command", "action": "stop_stream"}
StopStream(c) ==
    /\ running = NoProc
    /\ handler[c] = "recv"
    /\ streaming' = FALSE
    /\ IF stream_task # NoTask
       THEN LET old == tasks[stream_task]
                new == StopCancel(old, lock.holder = T(stream_task))
                ts == [tasks EXCEPT ![stream_task] = [new EXCEPT !.stopped = TRUE]]
            IN /\ CanDrop(ts, stream_task)
               /\ tasks' = Drop(ts, stream_task)
               /\ lock' = AfterReplyLock(Renamed(LockAfterCancel(lock, stream_task, old, new),
                                                 stream_task, NewName(ts, stream_task)), c)
               /\ stream_task' = NoTask
               /\ robot_connected' = FrameSourceAfterExit
       ELSE /\ UNCHANGED <<tasks, stream_task, robot_connected>>
            /\ lock' = AfterReplyLock(lock, c)
    /\ active_connections' = AfterReplyActive(c)
    /\ handler' = AfterReplyHandler(c)
    /\ last' = Reply(c, SendEvt(c, "streaming_stopped", H(c)))
    /\ quiet' = TRUE
    /\ trail' = 1
    /\ UNCHANGED <<behavior_task, is_mock, orch, peer, running, send_failed>>
    /\ pending' = Without(pending, stream_task)

\* Mutant: the test is inverted, only a finished behavior is cancelled.
ShouldCancelBehavior_Inverted == behavior_task # NoTask /\ tasks[behavior_task].pc = "done"

\* `behavior_task is not None and not behavior_task.done()`
ShouldCancelBehavior == behavior_task # NoTask /\ tasks[behavior_task].pc # "done"

\* Mutant: search_and_grasp replaces the behavior without cancelling it.
BehaviorCancel_Noop(rec, holds) == rec

\* behavior_task.cancel() of the search_and_grasp command.
BehaviorCancel(rec, holds) == CancelTask(rec, holds)

\* Mutant: every robot interface is taken for the mock.
is_mock_robot_Always == TRUE

\* _is_mock_robot(): isinstance(robot_interface, MockRobotInterface)
is_mock_robot == is_mock

\* {"type": "command", "action": "search_and_grasp"}
SearchAndGrasp(c) ==
    /\ running = NoProc
    /\ handler[c] = "recv"
    /\ LET old == tasks[BehaviorSlot]
           new == IF ShouldCancelBehavior
                  THEN BehaviorCancel(old, lock.holder = T(BehaviorSlot))
                  ELSE old
           cancelled == [tasks EXCEPT ![BehaviorSlot] = new]
           l == LockAfterCancel(lock, BehaviorSlot, old, new)
           ts == [cancelled EXCEPT ![BehaviorSlot].superseded = (old.kind # "none")]
       IN IF is_mock_robot
          THEN /\ CanDrop(ts, BehaviorSlot)
               /\ behavior_task' = BehaviorSlot
               /\ tasks' = [Drop(ts, BehaviorSlot) EXCEPT ![BehaviorSlot] = NewTask("behavior")]
               /\ lock' = AfterReplyLock(Renamed(l, BehaviorSlot, NewName(ts, BehaviorSlot)), c)
          ELSE /\ behavior_task' = behavior_task
               /\ tasks' = cancelled
               /\ lock' = AfterReplyLock(l, c)
    /\ active_connections' = AfterReplyActive(c)
    /\ handler' = AfterReplyHandler(c)
    /\ trail' = 0
    /\ UNCHANGED <<streaming, stream_task, robot_connected,
                   is_mock, orch, peer, running, quiet, send_failed>>
    /\ pending' = IF ShouldCancelBehavior THEN Without(pending, BehaviorSlot) ELSE pending
    /\ last' = Reply(c, [SendEvt(c, IF is_mock_robot THEN "ack_searching" ELSE "ack_idle", H(c))
                            EXCEPT !.msg = "search_and_grasp", !.kept = Kept])

----------------------------------------------------------------------------

Next ==
    \/ \E c \in Conns :
         \/ Connect(c)
         \/ Registered(c)
         \/ PeerClose(c)
         \/ Disconnect(c)
         \/ Deregistered(c)
         \/ StartStream(c)
         \/ StopStream(c)
         \/ SearchAndGrasp(c)
         \/ Chat(c)
         \/ ReplyError(c)    \* InvalidJson, UnknownType and UnknownAction
         \/ NotAnObject(c)
    \/ \E t \in TaskIds :
         \/ StreamConnect(t)
         \/ StreamConnected(t)
         \/ StreamLoop(t)
         \/ StreamFetched(t)
         \/ StreamWake(t)
         \/ BehaviorStart(t)
         \/ BehaviorObs(t)
         \/ BehaviorFetched(t)
         \/ BehaviorTargeted(t)
         \/ BehaviorWake(t)
         \/ BeginBroadcast(t)
         \/ LockGranted(t)
         \/ PassFinish(t)
         \/ Cancelled(t)
         \/ \E ws \in Conns : PassSend(t, ws)

Spec == Init /\ [][Next]_vars

\* The steps the event loop takes by itself: those of a task, and those of a
\* handler that was handed the lock.  What the clients do is under no
\* fairness.
TaskStep(t) ==
    \/ StreamConnect(t)
    \/ StreamConnected(t)
    \/ StreamLoop(t)
    \/ StreamFetched(t)
    \/ StreamWake(t)
    \/ BehaviorStart(t)
    \/ BehaviorObs(t)
    \/ BehaviorFetched(t)
    \/ BehaviorTargeted(t)
    \/ BehaviorWake(t)
    \/ BeginBroadcast(t)
    \/ LockGranted(t)
    \/ PassFinish(t)
    \/ Cancelled(t)
    \/ \E ws \in Conns : PassSend(t, ws)

LockStep(c) == Registered(c) \/ Deregistered(c)

\* The event loop runs every coroutine that is ready, and a sleep and a send
\* come back.
Fairness ==
    /\ \A t \in TaskIds : SF_vars(TaskStep(t))
    /\ \A c \in Conns : SF_vars(LockStep(c))

\* The server with one client left: the other connection has come and gone.
\* The robot is the mock, so that the behavior runs beside the stream.  No
\* register ever finds the lock taken here, so Registered is left out.
OneClientInit ==
    /\ active_connections = {}
    /\ lock = [holder |-> NoProc, waiters |-> <<>>]
    /\ streaming = FALSE
    /\ stream_task = NoTask
    /\ behavior_task = NoTask
    /\ robot_connected = FALSE
    /\ is_mock = TRUE
    /\ tasks = [t \in TaskIds |-> IdleTask]
    /\ handler = [c \in Conns |-> IF c = 1 THEN "new" ELSE "closed"]
    /\ peer = [c \in Conns |-> IF c = 1 THEN "up" ELSE "gone"]
    /\ running = NoProc
    /\ last = NoEvt
    /\ quiet = FALSE
    /\ trail = 0
    /\ send_failed = FALSE
    /\ pending = <<>>
    /\ orch = NoRun

OneClientNext ==
    \/ \E c \in Conns :
         \/ Connect(c)
         \/ PeerClose(c)
         \/ Disconnect(c)
         \/ Deregistered(c)
         \/ StartStream(c)
         \/ StopStream(c)
         \/ SearchAndGrasp(c)
         \/ Chat(c)
         \/ ReplyError(c)    \* InvalidJson, UnknownType and UnknownAction
         \/ NotAnObject(c)
    \/ \E t \in TaskIds : TaskStep(t)

FairSpec == OneClientInit /\ [][OneClientNext]_vars /\ Fairness

\* The same server under no fairness.
OneClientSpec == OneClientInit /\ [][OneClientNext]_vars

\* Two clients of the server with the mock robot: an operator, who sends the
\* commands and stays, and a viewer, who sends none.
Operator == 1
Viewer == 2
MockInit == Init /\ is_mock

\* The operator starts and stops the stream and starts behaviors, cancelling
\* tasks wherever they are; meanwhile the viewer registers, and deregisters
\* when its endpoint ends on a message that is no object.
CancelNext ==
    \/ Connect(Operator)
    \/ StartStream(Operator)
    \/ StopStream(Operator)
    \/ SearchAndGrasp(Operator)
    \/ Connect(Viewer)
    \/ Registered(Viewer)
    \/ NotAnObject(Viewer)
    \/ Deregistered(Viewer)
    \/ \E t \in TaskIds : TaskStep(t)

CancelSpec == MockInit /\ [][CancelNext]_vars /\ Fairness

\* The operator starts the stream and behaviors and never stops the stream;
\* meanwhile the viewer registers, goes away and is deregistered.
ViewerNext ==
    \/ Connect(Operator)
    \/ StartStream(Operator)
    \/ SearchAndGrasp(Operator)
    \/ Connect(Viewer)
    \/ Registered(Viewer)
    \/ PeerClose(Viewer)
    \/ Disconnect(Viewer)
    \/ Deregistered(Viewer)
    \/ \E t \in TaskIds : TaskStep(t)

ViewerSpec == MockInit /\ [][ViewerNext]_vars /\ Fairness

----------------------------------------------------------------------------
\* SO100DemoOrchestrator.run (demo_orchestrator.py), with
\* SearchPolicySkill.run_search_loop and GraspPolicySkill.run_grasp_loop.  It
\* is a plain sequential program of its own process.

\* SearchPolicySkill.policy_path as configured.
PolicyPaths == {"None", "path"}

\* A call into the robot or a policy returns or raises.
CallOutcomes == {"ok", "raise"}

\* Mutant: an exception leaves run at once.
Raise_Skips(o) == [o EXCEPT !.pc = "done", !.how = "raised"]

\* An exception leaves run through its `finally`; one raised in a
\* run_search_loop called on its own goes to that caller.
Raise(o) ==
    [o EXCEPT !.pc = IF o.caller = "direct" THEN "done" ELSE "finally",
              !.how = "raised"]

\* Mutant: run goes on to the grasp whatever the search reported.
AfterSearch_Always(found) == "grasp_load"

\* `if not found: ... return`, else the statements after the search.
AfterSearch(found) == IF found THEN "grasp_load" ELSE "finally"

\* The values max_steps takes when run_search_loop is called on its own.
SearchInputs == -1..MaxSearchInput

\* Mutant: the loop takes one more turn.
SearchLoopOver_Late(step, max_steps) == step > max_steps

\* `for step in range(max_steps)` has no further value.
SearchLoopOver(step, max_steps) == step >= max_steps

\* run_search_loop returns (True, step) from inside the loop or
\* (False, max_steps) after it, to run or to the caller it has.
Returned(o, found) ==
    LET r == [o EXCEPT !.search = IF found THEN "found" ELSE "exhausted",
                       !.result = <<found, IF found THEN o.step ELSE o.max_steps>>]
    IN  IF o.caller = "run"
        THEN [r EXCEPT !.pc = AfterSearch(found),
                       !.grasp_started = (AfterSearch(found) = "grasp_load"),
                       !.how = IF AfterSearch(found) = "finally" THEN "returned" ELSE @]
        ELSE [r EXCEPT !.pc = "done", !.how = "returned"]

\* run_search_loop(robot, object_name, detect_fn, max_steps) is called on its
\* own, on a skill with or without a policy path.
SearchCalled ==
    /\ orch.pc = "idle"
    /\ \E pp \in PolicyPaths, n \in SearchInputs :
         orch' = [orch EXCEPT !.pc = "search_load", !.caller = "direct",
                              !.policy_path = pp, !.max_steps = n]
    /\ UNCHANGED server_vars

\* orchestrator.run(object_name) is called, with some configuration.
RunCalled ==
    /\ orch.pc = "idle"
    /\ \E pp \in PolicyPaths : orch' = [orch EXCEPT !.pc = "connect", !.policy_path = pp]
    /\ UNCHANGED server_vars

\* self.robot.connect(), before the try: an exception leaves run at once.
RunConnect ==
    /\ orch.pc = "connect"
    /\ \E o \in CallOutcomes :
         orch' = IF o = "ok" THEN [orch EXCEPT !.pc = "branch", !.robot = "on",
                                                  !.connects = @ + 1]
                 ELSE [orch EXCEPT !.pc = "done", !.how = "raised"]
    /\ UNCHANGED server_vars

\* `if self.search_skill.policy_path is None`: the search is skipped and
\* run_grasp_loop is called, or run_search_loop is called.
RunBranch ==
    /\ orch.pc = "branch"
    /\ orch' = IF orch.policy_path = "None"
               THEN [orch EXCEPT !.pc = "grasp_load", !.search = "skipped",
                                 !.grasp_started = TRUE]
               ELSE [orch EXCEPT !.pc = "search_load", !.caller = "run",
                                 !.max_steps = SearchMaxSteps]
    /\ UNCHANGED server_vars

\* run_search_loop: self._ensure_loaded(); load raises when there is no
\* policy path, and loading the policy may raise.
SearchLoad ==
    /\ orch.pc = "search_load"
    /\ \E o \in CallOutcomes :
         /\ orch.policy_path = "None" => o = "raise"
         /\ orch' = IF o = "ok" THEN [orch EXCEPT !.pc = "search_obs", !.step = 0]
                    ELSE Raise([orch EXCEPT !.search = "raised"])
    /\ UNCHANGED server_vars

\* `for step in range(max_steps)`: the loop is over and (False, max_steps) is
\* returned to run; or get_observation and detect_fn, which returns
\* (True, step) to run when the object is seen.
SearchObserve ==
    /\ orch.pc = "search_obs"
    /\ IF SearchLoopOver(orch.step, orch.max_steps)
       THEN orch' = Returned(orch, FALSE)
       ELSE \E o \in CallOutcomes, seen \in BOOLEAN :
              orch' = IF o = "raise" THEN Raise([orch EXCEPT !.search = "raised"])
                      ELSE IF seen
                      THEN Returned([orch EXCEPT !.obs = @ + 1, !.seen = @ + 1], TRUE)
                      ELSE [orch EXCEPT !.pc = "search_act", !.obs = @ + 1]
    /\ UNCHANGED server_vars

\* self.step(image, joints) and robot.send_joint_targets(...) of the search.
SearchAct ==
    /\ orch.pc = "search_act"
    /\ \E o \in CallOutcomes :
         orch' = IF o = "ok"
                 THEN [orch EXCEPT !.pc = "search_obs", !.step = @ + 1, !.targets = @ + 1]
                 ELSE Raise([orch EXCEPT !.search = "raised"])
    /\ UNCHANGED server_vars

\* run_grasp_loop: self._ensure_loaded()
GraspLoad ==
    /\ orch.pc = "grasp_load"
    /\ \E o \in CallOutcomes :
         orch' = IF o = "ok" THEN [orch EXCEPT !.pc = "grasp_obs", !.step = 0]
                 ELSE Raise(orch)
    /\ UNCHANGED server_vars

\* `for step in range(max_steps)` of the grasp: the loop is over, or
\* get_observation.
GraspObserve ==
    /\ orch.pc = "grasp_obs"
    /\ IF orch.step >= GraspMaxSteps
       THEN orch' = [orch EXCEPT !.pc = "finally", !.how = "returned"]
       ELSE \E o \in CallOutcomes :
              orch' = IF o = "ok" THEN [orch EXCEPT !.pc = "grasp_act"] ELSE Raise(orch)
    /\ UNCHANGED server_vars

\* self.step(image, joints) and robot.send_joint_targets(...) of the grasp.
GraspAct ==
    /\ orch.pc = "grasp_act"
    /\ \E o \in CallOutcomes :
         orch' = IF o = "ok"
                 THEN [orch EXCEPT !.pc = "grasp_obs", !.step = @ + 1, !.targets = @ + 1]
                 ELSE Raise(orch)
    /\ UNCHANGED server_vars

\* finally: self.robot.disconnect()
RunFinally ==
    /\ orch.pc = "finally"
    /\ orch' = [orch EXCEPT !.pc = "done", !.robot = "off", !.disconnects = @ + 1]
    /\ UNCHANGED server_vars

OrchInit ==
    /\ active_connections = {}
    /\ lock = [holder |-> NoProc, waiters |-> <<>>]
    /\ streaming = FALSE
    /\ stream_task = NoTask
    /\ behavior_task = NoTask
    /\ robot_connected = FALSE
    /\ is_mock = FALSE
    /\ tasks = [t \in TaskIds |-> IdleTask]
    /\ handler = [c \in Conns |-> "new"]
    /\ peer = [c \in Conns |-> "up"]
    /\ running = NoProc
    /\ last = NoEvt
    /\ quiet = FALSE
    /\ trail = 0
    /\ send_failed = FALSE
    /\ pending = <<>>
    /\ orch = NoRun

OrchNext ==
    \/ RunCalled
    \/ RunConnect
    \/ RunBranch
    \/ SearchLoad
    \/ SearchObserve
    \/ SearchAct
    \/ GraspLoad
    \/ GraspObserve
    \/ GraspAct
    \/ RunFinally

OrchSpec == OrchInit /\ [][OrchNext]_vars

\* run_search_loop called on its own.
SearchNext ==
    \/ SearchCalled
    \/ SearchLoad
    \/ SearchObserve
    \/ SearchAct

SearchSpec == OrchInit /\ [][SearchNext]_vars

TypeOK ==
    /\ active_connections \subseteq Conns
    /\ streaming \in BOOLEAN
    /\ stream_task \in TaskIds \cup {NoTask}
    /\ behavior_task \in TaskIds \cup {NoTask}
    /\ (LockFree => lock.waiters = <<>>)
    /\ running # NoProc => \E t \in TaskIds : running = T(t) /\ Live(t)


----------------------------------------------------------------------------
\* Properties

FrameSent == last.type = "send" /\ last.ev = "frame"

\* C1: stream single-flight.  In every reachable state at most one stream loop
\* exists that can still fetch an observation or broadcast a frame.
C1_StreamSingleFlight == Cardinality(LiveStreams) <= 1

\* C1 witness: a new loop is live while a stopped one, cancelled inside its
\* broadcast pass, has not ended yet.
C1_Witness ==
    /\ Cardinality(LiveStreams) = 1
    /\ \E o \in OrphanSlots : tasks[o].kind = "stream" /\ tasks[o].cancel

\* C2: right after stop_stream; start_stream with no step in between there is
\* exactly one stream loop that can run, it is the new one, and no frame is ever
\* sent by a loop that a stop_stream has stopped.
C2_StopThenStart ==
    /\ trail = 2 =>
         /\ LiveStreams = {stream_task}
         /\ tasks[stream_task].pc = "start"
         /\ ~tasks[stream_task].stopped
    /\ FrameSent => \E t \in TaskIds : last.by = T(t) /\ ~tasks[t].stopped

\* C2 witness: stop_stream; start_stream while the previous loop, stopped in
\* the middle of a broadcast pass, still exists.
C2_Witness ==
    /\ trail = 2
    /\ \E o \in OrphanSlots :
         tasks[o].kind = "stream" /\ tasks[o].stopped /\ tasks[o].b = "pass"

\* C3: from the processing of a stop_stream command until the next start_stream
\* command is processed, no frame event is sent to any connection.
C3_NoFrameAfterStop == quiet => ~FrameSent

\* C3 witness: the stream is stopped while its loop is inside a broadcast pass
\* with recipients still to be sent to.
C3_Witness ==
    /\ quiet
    /\ \E o \in OrphanSlots :
         tasks[o].kind = "stream" /\ tasks[o].stopped /\ tasks[o].todo # {}


\* C4 (as claimed): a stream loop that ended on a frame-source failure, a
\* failed connect or a get_observation that raised, leaves the flag false.
C4_FailureCollapsesToIdle ==
    (/\ stream_task # NoTask
     /\ tasks[stream_task].pc = "done"
     /\ tasks[stream_task].how \in {"connect_failed", "raised"}) => ~streaming

\* The behavior tasks that can still broadcast or call the frame source.
LiveBehaviors == {t \in TaskIds : tasks[t].kind = "behavior" /\ Live(t)}

\* C5: behavior single-flight.  At most one behavior task can still run, and
\* every behavior task other than the one behavior_task refers to has been
\* cancelled.
C5_BehaviorSingleFlight ==
    /\ Cardinality(LiveBehaviors) <= 1
    /\ \A t \in TaskIds \ {behavior_task} : tasks[t].kind = "behavior" => tasks[t].cancel

\* C5 witness: a new behavior task exists while the one it replaced, cancelled
\* inside a broadcast pass, has not ended yet.
C5_Witness ==
    /\ Live(BehaviorSlot)
    /\ \E o \in OrphanSlots : tasks[o].kind = "behavior" /\ tasks[o].cancel

\* C6: no reasoning event is sent by a behavior invocation that a later
\* search_and_grasp command has replaced.
C6_NoInterleavedReasoning ==
    (last.type = "send" /\ last.ev = "reasoning") =>
        \E t \in TaskIds : last.by = T(t) /\ ~tasks[t].superseded

\* C6 witness: the second invocation has called its first broadcast (status
\* searching) and queues for the lock behind the first, which was replaced in
\* the middle of a reasoning broadcast.
C6_Witness ==
    /\ tasks[BehaviorSlot].kind = "behavior"
    /\ tasks[BehaviorSlot].log = <<"searching">>
    /\ \E o \in OrphanSlots :
         /\ tasks[o].superseded
         /\ tasks[o].b = "pass"
         /\ Ev(tasks[o].pc) = "reasoning"
         /\ tasks[o].todo # {}

\* searching, reasoning events, grasping, reasoning events, done.
IsFullScript(log) ==
    /\ Len(log) >= 3
    /\ log[1] = "searching"
    /\ log[Len(log)] = "done"
    /\ \E g \in 2..(Len(log) - 1) :
         /\ log[g] = "grasping"
         /\ \A k \in 2..(Len(log) - 1) : k # g => log[k] = "reasoning"

\* C7 (as claimed): every behavior that ran to its end without being replaced
\* broadcast searching, reasoning events, grasping, reasoning events and done,
\* in this order.
C7_MockScriptCompletes ==
    \A t \in TaskIds :
        (tasks[t].kind = "behavior" /\ tasks[t].pc = "done" /\ tasks[t].how = "returned")
            => IsFullScript(tasks[t].log)

HasError(log) == \E k \in 1..Len(log) : log[k] = "error"

\* C8: once a behavior has broadcast the error status, that is the last event
\* it ever broadcasts (no grasping, no done, no reasoning after it), it is
\* broadcast once, and the behavior ends when that broadcast returns.
C8_ErrorTerminates ==
    \A t \in TaskIds :
        (tasks[t].kind = "behavior" /\ HasError(tasks[t].log)) =>
            /\ \A k \in 1..Len(tasks[t].log) :
                 tasks[t].log[k] = "error" <=> k = Len(tasks[t].log)
            /\ tasks[t].pc \in {"error", "done"}
            /\ "grasping" \notin {tasks[t].log[k] : k \in 1..Len(tasks[t].log)}

\* C8 witness: a behavior whose get_observation failed in the search phase has
\* broadcast the error status and returned.
C8_Witness ==
    /\ tasks[BehaviorSlot].pc = "done"
    /\ tasks[BehaviorSlot].how = "returned"
    /\ HasError(tasks[BehaviorSlot].log)

\* C9: when a broadcast pass completes, every member whose send did not raise
\* was sent the event, exactly the members whose send raised are gone from the
\* set, and the caller goes on (nothing is raised to it).
C9_BroadcastIsolation ==
    last.type = "pass_done" =>
        /\ last.got = last.snap \ last.failed
        /\ active_connections = last.snap \ last.failed
        /\ \A t \in TaskIds : last.by = T(t) => tasks[t].how \notin {"raised", "cancelled"}

\* C9 witness: a pass completes in which one send raised and another delivered.
C9_Witness ==
    /\ last.type = "pass_done"
    /\ last.failed # {}
    /\ last.got # {}

\* The connections whose register has completed and whose deregister has not.
Registered_NotDeregistered == {c \in Conns : handler[c] \in {"recv", "dereg_wait"}}

\* C10: as long as no broadcast send has raised, the set is exactly the
\* connections registered and not deregistered, whatever broadcast passes ran
\* in between.
C10_NetMembership ==
    ~send_failed => active_connections = Registered_NotDeregistered

\* C10 witness: a broadcast pass completes in which every send succeeded,
\* while a deregister call that started during the pass queues for the lock.
C10_Witness ==
    /\ ~send_failed
    /\ last.type = "pass_done"
    /\ Cardinality(last.got) > 1
    /\ \E c \in Conns : handler[c] = "dereg_wait"

\* The tasks that are inside the loop of broadcast_json.
InPass == {t \in TaskIds : tasks[t].b = "pass"}

\* C11: at most one broadcast pass is under way, the task in it holds the lock,
\* no register or deregister holds the lock meanwhile, and the set is still
\* what it was when the pass began, although the pass suspends at each send.
C11_GuardedSet ==
    /\ Cardinality(InPass) <= 1
    /\ \A t \in InPass :
         /\ lock.holder = T(t)
         /\ tasks[t].snap = active_connections
         /\ tasks[t].todo \cup tasks[t].got \cup tasks[t].failed = tasks[t].snap

\* C11 witness: a pass is suspended after a send while a deregister and another
\* broadcast wait for the lock.
C11_Witness ==
    \E t \in InPass :
        /\ tasks[t].got # {}
        /\ tasks[t].todo # {}
        /\ \E c \in Conns : handler[c] = "dereg_wait"
        /\ \E u \in TaskIds : tasks[u].b = "wait"

\* C12: every send of a broadcast is made by the call that was invoked first
\* among the broadcast calls not yet over, so no recipient is sent the event
\* of a later call before the event of an earlier one.
C12_BroadcastOrder ==
    \A t \in TaskIds :
        (last.type = "send" /\ last.by = T(t)) => (pending # <<>> /\ Head(pending) = t)

\* C12 witness: a task sends while the other task, which called broadcast_json
\* after it, waits for the lock.
C12_Witness ==
    /\ last.type = "send"
    /\ Len(pending) = 2
    /\ last.by = T(Head(pending))
    /\ tasks[pending[2]].b = "wait"

\* C13 (as claimed): a malformed message is answered with an error event to
\* its sender, changes nothing else, and the sender's handler keeps receiving.
C13_MalformedReported ==
    \A c \in Conns :
        (last.by = H(c) /\ last.msg = "malformed") =>
            /\ last.type = "send"
            /\ last.ev = "error"
            /\ last.to = c
            /\ last.kept
            /\ handler[c] = "recv"
            /\ c \in active_connections

\* C14: a chat message from a client that is still there is answered in the
\* same step with one chat event, sent to its sender by the handler and not
\* by a broadcast (a reply that cannot be sent ends the handler, see C26); the text is the stub's
\* echo of the text sent, also when the configured engine is one of the
\* unimplemented providers; and the step changes neither the set nor the
\* streaming or behavior state.
C14_ChatReply ==
    \A c \in Conns :
        (last.by = H(c) /\ last.msg = "chat") =>
            /\ last.type = "send"
            /\ last.ev = "chat"
            /\ last.to = c
            /\ last.text = StubContent(TextOf(last.arg[2]))
            /\ last.kept

\* C14 witness: a chat message is answered through the fallback (the engine
\* raised NotImplementedError) while a broadcast pass of the stream is
\* suspended with the sender still to be sent to.
C14_Witness ==
    /\ last.msg = "chat"
    /\ last.arg = <<TRUE, <<"hello">> >>
    /\ \E t \in InPass : tasks[t].kind = "stream" /\ last.to \in tasks[t].todo

\* C15: a start_stream processed while a stream loop is active creates no
\* task and leaves the flag, the handle and everything else as they were, and
\* the one loop that was active is the only one after it.
C15_StartIdempotent ==
    (last.msg = "start_stream" /\ last.arg[1]) =>
        /\ last.kept
        /\ streaming
        /\ LiveStreams = {stream_task}

\* C15 witness: start_stream is processed again while the loop it launched
\* earlier sleeps between two frames.
C15_Witness ==
    /\ last.msg = "start_stream"
    /\ last.arg[1]
    /\ stream_task # NoTask
    /\ tasks[stream_task].pc = "sleep"

\* C16: a stream loop whose connect failed has set the flag to false and has
\* ended without calling get_observation and without being inside a broadcast,
\* and no frame is ever sent by such a loop.
C16_ConnectFailureSilent ==
    /\ \A t \in TaskIds :
         tasks[t].how = "connect_failed" =>
             /\ tasks[t].pc = "done"
             /\ ~tasks[t].fetched
             /\ tasks[t].b = "idle"
             /\ T(t) \notin {pending[k] : k \in DOMAIN pending}
             /\ t = stream_task => ~streaming
    /\ FrameSent => \E t \in TaskIds : last.by = T(t) /\ tasks[t].how # "connect_failed"

\* C16 witness: the connect of a loop failed while two connections are in the
\* set.
C16_Witness ==
    /\ stream_task # NoTask
    /\ tasks[stream_task].how = "connect_failed"
    /\ active_connections = Conns

\* A broadcast of a frame has completed.
FrameBroadcast == last.type = "pass_done" /\ last.ev = "frame"

\* C17: a stream loop that stays active (no stop_stream, no failure of the
\* frame source) completes a broadcast of a frame again and again; and after
\* each such broadcast the loop is suspended in its sleep.
C17_StreamLiveness ==
    /\ []<>(LiveStreams = {} \/ FrameBroadcast)
    /\ [](FrameBroadcast => \E t \in TaskIds : last.by = T(t) /\ tasks[t].pc = "sleep")

\* C17 witness: a broadcast of a frame completes, delivered to the client,
\* while the behavior task waits for the lock.
C17_Witness ==
    /\ FrameBroadcast
    /\ last.got # {}
    /\ tasks[BehaviorSlot].b = "wait"

\* C18: when the reply streaming_started of a start_stream that launched a
\* loop is sent to the sender, that loop has not taken a step yet, and a loop
\* sends a frame only after it has run up to a fetched observation: the
\* sender is sent the status before the first frame of the loop.
C18_StatusBeforeFrame ==
    /\ \A c \in Conns :
         (last.by = H(c) /\ last.msg = "start_stream" /\ last.arg[2]) =>
             /\ last.type = "send"
             /\ last.ev = "streaming_started"
             /\ last.to = c
             /\ stream_task # NoTask
             /\ tasks[stream_task].pc = "start"
             /\ ~tasks[stream_task].fetched
    /\ \A t \in TaskIds : (FrameSent /\ last.by = T(t)) => tasks[t].fetched

\* C18 witness: a start_stream right after a stop_stream launches a new loop
\* and is answered, while the sender and another connection are in the set.
C18_Witness ==
    /\ last.msg = "start_stream"
    /\ last.arg[2]
    /\ trail = 2
    /\ active_connections = Conns

\* The connections a broadcast has discarded: registered, not deregistered,
\* and not in the set.
Evicted == {c \in Conns : handler[c] \in {"recv", "dereg_wait"} /\ c \notin active_connections}

\* C19: inside a pass every member of the set is in exactly one of three
\* groups, still to be sent to, sent, or failed, so that no member is sent to
\* twice and none is tried again after its send raised; and no pass includes,
\* and no broadcast sends to, a connection that an earlier broadcast discarded.
C19_AtMostOnce ==
    /\ \A t \in InPass :
         /\ tasks[t].todo \cap tasks[t].got = {}
         /\ tasks[t].todo \cap tasks[t].failed = {}
         /\ tasks[t].got \cap tasks[t].failed = {}
         /\ tasks[t].snap \cap Evicted = {}
    /\ \A t \in TaskIds : (last.type = "send" /\ last.by = T(t)) => last.to \notin Evicted

\* C19 witness: a broadcast sends to a connection after an earlier broadcast
\* has discarded the other one, whose send had raised.
C19_Witness ==
    /\ Evicted # {}
    /\ last.type = "send"
    /\ \E t \in InPass : last.by = T(t) /\ tasks[t].snap # {}

\* C20: a deregister ends with the connection out of the set and nothing else
\* of the set changed; when the connection was already absent, discarded by
\* a broadcast, the set is left as it was; and discarding twice gives what
\* discarding once gives.
C20_DeregisterIdempotent ==
    /\ last.type = "deregistered" =>
         /\ handler[last.to] = "closed"
         /\ active_connections = last.snap \ {last.to}
         /\ last.to \notin last.snap => active_connections = last.snap
    /\ \A s \in SUBSET Conns : \A c \in Conns :
         /\ Discard(Discard(s, c), c) = Discard(s, c)
         /\ c \notin s => Discard(s, c) = s

\* C20 witness: a connection that a broadcast had discarded is deregistered
\* while another connection is in the set.
C20_Witness ==
    /\ last.type = "deregistered"
    /\ last.to \notin last.snap
    /\ last.snap # {}

\* C21: the frame source is never inside two calls at once: no task is at a
\* call of connect, get_observation or send_joint_targets while another task
\* is at one that has not returned.
C21_FrameSourceExclusive ==
    \A t, u \in TaskIds : InCall(t) /\ InCall(u) => t = u

\* A behavior is inside get_observation while a stream loop that has fetched
\* frames is alive beside it.
C21_Witness ==
    \E t, u \in TaskIds :
        /\ tasks[t].kind = "behavior" /\ tasks[t].pc = "fetching"
        /\ tasks[u].kind = "stream" /\ Live(u) /\ tasks[u].fetched

\* C22: a failure of the frame source ends only the task it occurs in: the
\* step in which connect or get_observation raised leaves the set of
\* connections, the lock, the other tasks and every handler as they were, so
\* the handlers go on receiving commands.
C22_FailureIsolated ==
    last.type = "failure" => last.kept

\* A behavior's get_observation has raised beside a live stream loop while a
\* registered handler is receiving.
C22_Witness ==
    /\ last.type = "failure" /\ last.kept
    /\ \E t \in TaskIds : last.by = T(t) /\ tasks[t].kind = "behavior"
    /\ LiveStreams # {}
    /\ \E c \in active_connections : handler[c] = "recv"

\* C23: once the frame source is connected nothing disconnects it: no step
\* (a stop_stream, a cancellation, a loop that returns or raises, a client
\* that disconnects) takes it from connected to not connected.
C23_FrameSourceStaysConnected ==
    [][robot_connected => robot_connected']_vars

\* The frame source is still connected after the stream was stopped, its loop
\* has ended and every client has disconnected.
C23_Witness ==
    /\ robot_connected
    /\ quiet /\ ~streaming /\ stream_task = NoTask
    /\ \A t \in TaskIds : tasks[t].kind # "stream"
    /\ \A c \in Conns : handler[c] = "closed"

\* n reasoning events in a row.
Reasonings(n) == [k \in 1..n |-> "reasoning"]

\* The broadcasts of a whole behavior: searching, the opening thought, one
\* thought per search step, the closing thought of the search, grasping, one
\* thought per grasp step, the closing thought, done.
FixedScript ==
    <<"searching">> \o Reasonings(12) \o <<"grasping">> \o Reasonings(6) \o <<"done">>

\* C24: a behavior that returned without an observation failure broadcast
\* exactly the fixed script, whatever the frame source delivered: status
\* searching, 12 reasoning events, status grasping, 6 reasoning events, status
\* done; and its two loops are bounded, the search loop by 10 and the grasp
\* loop by 5 iterations.
C24_FixedScript ==
    \A t \in TaskIds :
        tasks[t].kind = "behavior" =>
            /\ (tasks[t].pc = "done" /\ tasks[t].how = "returned" /\ ~HasError(tasks[t].log))
                   => tasks[t].log = FixedScript
            /\ tasks[t].pc \in {"obs", "fetching", "targeting", "step", "search_sleep"}
                   => tasks[t].i < 10
            /\ tasks[t].pc \in {"grasp", "grasp_sleep"} => tasks[t].i < 5

\* A behavior has run to its end and broadcast the 21 events of the script.
C24_Witness ==
    /\ tasks[BehaviorSlot].kind = "behavior"
    /\ tasks[BehaviorSlot].pc = "done"
    /\ tasks[BehaviorSlot].how = "returned"
    /\ Len(tasks[BehaviorSlot].log) = 21
    /\ tasks[BehaviorSlot].log = FixedScript

\* C26: no connection leaks.  A connection whose endpoint has returned (the
\* client disconnected, or handling a message or replying to it raised) is not
\* in the set, no broadcast pass has it left to send to, and nothing is sent
\* to it.
C26_NoConnectionLeak ==
    \A c \in Conns :
        handler[c] = "closed" =>
            /\ c \notin active_connections
            /\ \A t \in TaskIds : c \notin tasks[t].todo
            /\ ~(last.type = "send" /\ last.to = c)

\* An endpoint has just returned because its reply raised, while a stream
\* loop is alive and another connection is registered.
C26_Witness ==
    /\ last.raised /\ last.type = "deregistered"
    /\ handler[last.to] = "closed"
    /\ LiveStreams # {}
    /\ active_connections # {}

\* C27: a client's disconnect changes only the membership of its connection:
\* the step in which the endpoint sees the disconnect, and the step in which
\* manager.disconnect discards the connection, leave the flag, the two
\* handles, every task, the frame source and the other handlers as they were.
C27_DisconnectOnlyMembership ==
    last.msg = "disconnect" => last.kept

\* The last client has disconnected and the stream loop and the behavior it
\* started are both still alive.
C27_Witness ==
    /\ last.msg = "disconnect" /\ last.type = "deregistered"
    /\ \A c \in Conns : handler[c] = "closed"
    /\ streaming /\ LiveStreams # {} /\ LiveBehaviors # {}

\* C29: with a robot interface that is not the mock no behavior task ever
\* exists, nothing but frames is ever broadcast, and a search_and_grasp
\* command is answered to its sender alone with the status of phase idle,
\* leaving the set, the flag, the handles and the tasks as they were.
C29_RealRobotNoBehavior ==
    ~is_mock =>
        /\ behavior_task = NoTask
        /\ \A t \in TaskIds : tasks[t].kind # "behavior"
        /\ \A t \in TaskIds : (last.type = "send" /\ last.by = T(t)) => last.ev = "frame"
        /\ \A c \in Conns :
             (last.msg = "search_and_grasp" /\ last.by = H(c)) =>
                 /\ last.type = "send"
                 /\ last.ev = "ack_idle"
                 /\ last.to = c
                 /\ last.kept

\* A search_and_grasp command was answered with phase idle while a stream
\* loop is inside a broadcast pass and another connection is registered.
C29_Witness ==
    /\ ~is_mock
    /\ last.msg = "search_and_grasp" /\ last.ev = "ack_idle"
    /\ \E t \in InPass : tasks[t].kind = "stream"
    /\ active_connections \ {last.to} # {}

\* C30: in SO100DemoOrchestrator.run the grasp loop is started only when the
\* search was skipped (no policy path) or reported the object found; and once
\* a search has used up its steps without seeing the object, the grasp loop
\* is never started and no step sends another joint target.
C30_GraspOnlyAfterFound ==
    /\ [](orch.grasp_started => orch.search \in {"skipped", "found"})
    /\ [](orch.pc \in {"grasp_load", "grasp_obs", "grasp_act"} => orch.grasp_started)
    /\ [](orch.search = "skipped" <=> (orch.policy_path = "None" /\ orch.grasp_started))
    /\ [][orch.search = "exhausted" =>
             (orch'.targets = orch.targets /\ ~orch'.grasp_started)]_vars

\* A run whose search used all its steps without seeing the object has ended:
\* the search sent its 50 joint targets, no grasp was started and the robot is
\* disconnected.
C30_Witness ==
    /\ orch.pc = "done"
    /\ orch.search = "exhausted"
    /\ orch.targets = 50
    /\ ~orch.grasp_started
    /\ orch.robot = "off"

\* The coroutines the lock is held by or queues: each is where it waits for
\* the lock or works under it, and none has ended.
LockSound ==
    /\ \A t \in TaskIds :
         lock.holder = T(t) => Unended(tasks[t]) /\ tasks[t].b \in {"wait", "pass"}
    /\ \A c \in Conns :
         lock.holder = H(c) => handler[c] \in {"reg_wait", "dereg_wait"}
    /\ \A k \in DOMAIN lock.waiters :
         /\ \A t \in TaskIds :
              lock.waiters[k] = T(t) => Unended(tasks[t]) /\ tasks[t].b = "wait"
         /\ \A c \in Conns :
              lock.waiters[k] = H(c) => handler[c] \in {"reg_wait", "dereg_wait"}

\* C25: a cancellation never leaves the lock with a task that has ended, and
\* whatever is cancelled, and wherever, every register, every deregister and
\* every broadcast that waits for the lock gets it in the end.
C25_CancelReleasesGuard ==
    /\ []LockSound
    /\ (handler[Viewer] = "reg_wait") ~> (handler[Viewer] = "recv")
    /\ (handler[Viewer] = "dereg_wait") ~> (handler[Viewer] = "closed")
    /\ \A t \in {StreamSlot, BehaviorSlot} : (tasks[t].b = "wait") ~> (tasks[t].b # "wait")

\* A task cancelled inside its broadcast pass still holds the lock, and the
\* viewer's register and another task's broadcast queue behind it.
C25_Witness ==
    \E t, u \in TaskIds :
        /\ tasks[t].cancel /\ lock.holder = T(t) /\ tasks[t].b = "pass"
        /\ handler[Viewer] = "reg_wait"
        /\ tasks[u].b = "wait"

\* C28: while the stream loop and the behavior go on broadcasting, a register
\* and a deregister that wait for the lock get it and complete.
C28_RegisterStarvationFree ==
    \A c \in Conns :
        /\ [](handler[c] = "reg_wait" => <>(handler[c] = "recv" /\ c \in active_connections))
        /\ [](handler[c] = "dereg_wait" => <>(handler[c] = "closed" /\ c \notin active_connections))

\* The viewer's register queues for the lock behind a broadcast of the
\* behavior, while the stream loop is inside its pass.
C28_Witness ==
    /\ handler[Viewer] = "reg_wait"
    /\ lock.holder = T(StreamSlot) /\ tasks[StreamSlot].b = "pass"
    /\ Len(lock.waiters) = 2
    /\ lock.waiters[1] = T(BehaviorSlot)
    /\ lock.waiters[2] = H(Viewer)

\* C31: in SO100DemoOrchestrator.run, once robot.connect() has returned,
\* robot.disconnect() is called exactly once before run is left, however it is
\* left: not inside the try, once when run has ended, and never when connect
\* itself raised.
C31_DisconnectExactlyOnce ==
    /\ orch.disconnects <= orch.connects
    /\ orch.connects <= 1
    /\ orch.pc = "done" => orch.disconnects = orch.connects
    /\ orch.pc \notin {"idle", "connect", "done"} =>
           orch.connects = 1 /\ orch.disconnects = 0 /\ orch.robot = "on"
    /\ orch.connects = 0 => orch.pc \in {"idle", "connect", "done"}

\* run has ended on an exception raised after the search found the object
\* and some steps were taken, and the robot was disconnected once.
C31_Witness ==
    /\ orch.pc = "done"
    /\ orch.how = "raised"
    /\ orch.search = "found"
    /\ orch.step > 0
    /\ orch.connects = 1
    /\ orch.disconnects = 1
    /\ orch.robot = "off"

\* C32: run_search_loop with max_steps = N returns (True, k), k < N, when the
\* observation after k policy steps is the first on which detect_fn is true,
\* and (False, N) when none of the N observations is; it has then sent one
\* joint-target command for each step taken, and sends none once the object
\* was seen.
C32_SearchLoopResult ==
    /\ [](orch.pc \in {"search_obs", "search_act"} =>
            /\ orch.targets = orch.step
            /\ orch.seen = 0
            /\ orch.obs = IF orch.pc = "search_act" THEN orch.step + 1 ELSE orch.step)
    /\ [](orch.search = "found" =>
            /\ orch.result = <<TRUE, orch.targets>>
            /\ orch.targets < orch.max_steps
            /\ orch.obs = orch.targets + 1
            /\ orch.seen = 1)
    /\ [](orch.search = "exhausted" =>
            /\ orch.result = <<FALSE, orch.max_steps>>
            /\ orch.seen = 0
            /\ orch.obs = orch.targets
            /\ orch.targets = IF orch.max_steps < 0 THEN 0 ELSE orch.max_steps)
    /\ [](orch.result # <<>> <=> orch.search \in {"found", "exhausted"})
    /\ [][orch.search = "found" => orch'.targets = orch.targets]_vars

\* run_search_loop, called with max_steps = 8, has returned (True, 5): five
\* steps were taken and five joint-target commands sent, and the sixth
\* observation showed the object.
C32_Witness ==
    /\ orch.caller = "direct"
    /\ orch.pc = "done"
    /\ orch.max_steps = 8
    /\ orch.result = <<TRUE, 5>>
    /\ orch.targets = 5
    /\ orch.obs = 6

====
